---------------------------- MODULE Spec2Model ----------------------------
(***************************************************************************)
(* 3DSDepthMap: the stereo stream synchronizer (N3DSVideo), the metric     *)
(* depth conversion and the deflation scan of computeDepth, and the        *)
(* YUV420 plane converters.                                                *)
(***************************************************************************)
EXTENDS Integers, Sequences, FiniteSets, TLC

VARIABLES
    \* ---- N3DSVideo (n3dsvideo.hh:65-81) and its environment
    pc,                 \* "idle" | "new" | "open" | "failed" (exception thrown)
    err,                \* the cv::Exception message of a failed session
    m_fmtCtx,           \* per stream: kind, codec width/height, decoder available
    m_leftStreamIdx,
    m_rightStreamIdx,
    m_width,
    m_height,
    m_leftUnmatched,
    m_rightUnmatched,
    m_curLeft,
    m_curRight,
    m_newStereoImage,
    m_flushingPacket,
    pktStream,          \* m_packet->stream_index
    packetsRead,        \* packets av_read_frame has delivered
    fileLen,            \* packets the file holds
    eofResets,          \* libavformat build: a failed av_read_frame blanks the
                        \* packet (stream_index 0) or leaves it as it was
    decBuf,             \* frames held inside each stream's decoder
    nDecoded,           \* frames each side's decoder has output
    emitted,            \* processStep calls that ended with a new stereo pair
    ret,                \* the last processStep call: "none" | "true" | "false" | "threw"
    \* ---- computeDepth (main.cc:118-200), one row of the disparity field
    phase,              \* "idle" | "deflate" | "depth"
    disparity0,         \* the row as the matcher produced it
    disparity,          \* the row, rewritten in place
    dispUnknown,        \* the field's minimum: the "unknown" disparity
    cEdgeRow,           \* the row of colourEdges
    dEdgeRow,           \* the row of disparityEdges
    onEdge,
    col,                \* the column loop's j
    \* ---- convertYUV420ToY / convertYUV420ToRGB (utils.cc:19-84)
    cvState,            \* "idle" | "rows" | "colour" | "done"
    cvKind,             \* "Y" | "RGB"
    cvW,
    cvH,
    linesize,           \* frame->linesize[0 .. 2], as <<l0, l1, l2>>
    cvRow,              \* the row loop's i
    ySrc,               \* offsets into frame->data[0], [1], [2]
    uSrc,
    vSrc,
    res                 \* the output matrix: res[i + 1][j + 1]

syncVars == <<pc, err, m_fmtCtx, m_leftStreamIdx, m_rightStreamIdx, m_width,
              m_height, m_leftUnmatched, m_rightUnmatched, m_curLeft,
              m_curRight, m_newStereoImage, m_flushingPacket, pktStream,
              packetsRead, fileLen, eofResets, decBuf, nDecoded, emitted, ret>>

depthVars == <<phase, disparity0, disparity, dispUnknown, cEdgeRow, dEdgeRow,
               onEdge, col>>

yuvVars == <<cvState, cvKind, cvW, cvH, linesize, cvRow, ySrc, uSrc, vSrc, res>>

vars == <<syncVars, depthVars, yuvVars>>

-----------------------------------------------------------------------------
(* Bounds *)

NumStreams == 3
MaxPackets == 4
MaxDelay == 1
MaxOpenPackets == 2
MaxFairPackets == 3

StreamIds == 0 .. (NumStreams - 1)

\* Frame sizes (width, height) a stream's codec context can report.
Dims == {<<2, 2>>, <<3, 2>>, <<2, 3>>}

PixFmts == {"YUV420P", "YUVJ420P", "RGB24"}

StreamDescs ==
    {[kind |-> "other", w |-> 0, h |-> 0, decodable |-> FALSE]}
    \cup {[kind |-> "video", w |-> d[1], h |-> d[2], decodable |-> b] :
            d \in Dims, b \in BOOLEAN}

Containers == [StreamIds -> StreamDescs]

NoFrame == [side |-> "none", seq |-> 0, w |-> 0, h |-> 0]

Min(a, b) == IF a < b THEN a ELSE b

Range(q) == {q[i] : i \in 1 .. Len(q)}

-----------------------------------------------------------------------------
(* N3DSVideo::N3DSVideo *)

\* av_find_best_stream(m_fmtCtx, AVMEDIA_TYPE_VIDEO, i, -1, nullptr, 0)
FindBestStream(ctx, i) == IF ctx[i].kind = "video" THEN i ELSE -1

StreamSizeMismatchWidthOnly(w, h, cw, ch) == w # cw

\* m_width != decCtx->width || m_height != decCtx->height
StreamSizeMismatch(w, h, cw, ch) == w # cw \/ h # ch

\* The stream loop of the constructor, from stream i on.
RECURSIVE OpenStreams(_, _, _)
OpenStreams(ctx, i, st) ==
    IF i >= NumStreams THEN st
    ELSE IF FindBestStream(ctx, i) < 0 THEN OpenStreams(ctx, i + 1, st)
    ELSE IF st.nStreams >= 2 THEN st
    ELSE LET n  == st.nStreams + 1
             s1 == IF st.cur = "left"
                   THEN [st EXCEPT !.nStreams = n, !.left = i]
                   ELSE [st EXCEPT !.nStreams = n, !.right = i]
             s2 == IF n = 1
                   THEN [s1 EXCEPT !.w = ctx[i].w, !.h = ctx[i].h]
                   ELSE s1
         IN  IF n # 1 /\ StreamSizeMismatch(s2.w, s2.h, ctx[i].w, ctx[i].h)
             THEN OpenStreams(ctx, i + 1, [s2 EXCEPT !.nStreams = n - 1])
             ELSE IF ~ctx[i].decodable
             THEN [s2 EXCEPT !.err = "cannot decode stream"]
             ELSE OpenStreams(ctx, i + 1, [s2 EXCEPT !.cur = "right"])

OpenResult(ctx) ==
    LET st == OpenStreams(ctx, 0,
                  [nStreams |-> 0, left |-> -1, right |-> -1, w |-> 0, h |-> 0,
                   cur |-> "left", err |-> "none"])
    IN  IF st.err = "none" /\ st.nStreams < 2
        THEN [st EXCEPT !.err = "cannot find matching L/R video streams"]
        ELSE st

Construct ==
    /\ pc = "new"
    /\ LET st == OpenResult(m_fmtCtx)
       IN  /\ pc' = IF st.err = "none" THEN "open" ELSE "failed"
           /\ err' = st.err
           /\ m_leftStreamIdx' = st.left
           /\ m_rightStreamIdx' = st.right
           /\ m_width' = st.w
           /\ m_height' = st.h
    /\ UNCHANGED <<m_fmtCtx, m_leftUnmatched, m_rightUnmatched, m_curLeft,
                   m_curRight, m_newStereoImage, m_flushingPacket, pktStream,
                   packetsRead, fileLen, eofResets, decBuf, nDecoded, emitted, ret>>
    /\ UNCHANGED <<depthVars, yuvVars>>

-----------------------------------------------------------------------------
(* N3DSVideo::decodePacket *)

\* What avcodec_decode_video2 can do with a packet (drain: the empty packet) when
\* the decoder holds buf frames.
DecodeKinds(buf, drain) ==
    IF drain
    THEN IF buf = 0 THEN {"none"} ELSE {"frame", "error"}
    ELSE {"error", "none", "frame"} \cup (IF buf < MaxDelay THEN {"buffer"} ELSE {})

DecodeOutcomes(buf, drain) ==
    {[kind |-> k, w |-> 0, h |-> 0, fmt |-> "YUV420P"] :
        k \in DecodeKinds(buf, drain) \ {"frame"}}
    \cup {[kind |-> "frame", w |-> d[1], h |-> d[2], fmt |-> f] :
            d \in IF "frame" \in DecodeKinds(buf, drain) THEN Dims ELSE {},
            f \in PixFmts}

BufAfter(buf, drain, kind) ==
    IF kind = "buffer" THEN buf + 1
    ELSE IF kind = "frame" /\ drain THEN buf - 1
    ELSE buf

FrameSizeChangedWidthOnly(w, h, cw, ch) == cw # w

\* decCtx->width != m_width || decCtx->height != m_height
FrameSizeChanged(w, h, cw, ch) == cw # w \/ ch # h

PixFmtSupported(fmt) == fmt \in {"YUV420P", "YUVJ420P"}

PushSideAlwaysLeft(stream, left) == "L"

\* m_packet->stream_index == m_leftStreamIdx ? left FIFO : right FIFO
PushSide(stream, left) == IF stream = left THEN "L" ELSE "R"

RECURSIVE MatchUnmatchedBack(_)
MatchUnmatchedBack(q) ==
    IF Len(q.l) > 0 /\ Len(q.r) > 0
    THEN MatchUnmatchedBack([l |-> SubSeq(q.l, 1, Len(q.l) - 1),
                             r |-> SubSeq(q.r, 1, Len(q.r) - 1),
                             cl |-> q.l[Len(q.l)], cr |-> q.r[Len(q.r)],
                             new |-> TRUE])
    ELSE q

RECURSIVE MatchUnmatchedNoFlag(_)
MatchUnmatchedNoFlag(q) ==
    IF Len(q.l) > 0 /\ Len(q.r) > 0
    THEN MatchUnmatchedNoFlag([l |-> Tail(q.l), r |-> Tail(q.r),
                               cl |-> Head(q.l), cr |-> Head(q.r),
                               new |-> q.new])
    ELSE q

RECURSIVE MatchUnmatchedLagging(_)
MatchUnmatchedLagging(q) ==
    IF Len(q.l) > 1 /\ Len(q.r) > 0
    THEN MatchUnmatchedLagging([l |-> Tail(q.l), r |-> Tail(q.r),
                                cl |-> Head(q.l), cr |-> Head(q.r),
                                new |-> TRUE])
    ELSE q

\* while (m_leftUnmatched.size() && m_rightUnmatched.size()) { ... }
RECURSIVE MatchUnmatched(_)
MatchUnmatched(q) ==
    IF Len(q.l) > 0 /\ Len(q.r) > 0
    THEN MatchUnmatched([l |-> Tail(q.l), r |-> Tail(q.r),
                         cl |-> Head(q.l), cr |-> Head(q.r),
                         new |-> TRUE])
    ELSE q

\* decodePacket on the state s with the decoder's answer o.  Returns the fields
\* it changes, the value it returns (got) and the exception it throws (err).
DecodePacket(s, drain, o) ==
    LET base == [l |-> s.l, r |-> s.r, cl |-> s.cl, cr |-> s.cr, new |-> s.new,
                 buf |-> s.buf, ctx |-> s.ctx, n |-> s.n,
                 got |-> FALSE, err |-> "none"]
    IN
    IF s.stream # s.left /\ s.stream # s.right THEN base
    ELSE
    LET buf1 == [s.buf EXCEPT ![s.stream] = BufAfter(@, drain, o.kind)]
    IN
    IF o.kind = "error"
    THEN [base EXCEPT !.err = "while decoding video frame"]
    ELSE IF o.kind # "frame" THEN [base EXCEPT !.buf = buf1]
    ELSE
    LET ctx1 == [s.ctx EXCEPT ![s.stream].w = o.w, ![s.stream].h = o.h]
        from == IF s.stream = s.left THEN "L" ELSE "R"
        side == PushSide(s.stream, s.left)
        n1   == [s.n EXCEPT ![from] = @ + 1]
        dec  == [base EXCEPT !.buf = buf1, !.ctx = ctx1, !.n = n1]
    IN
    IF FrameSizeChanged(s.w, s.h, o.w, o.h)
    THEN [dec EXCEPT !.err = "frame size changed"]
    ELSE IF ~PixFmtSupported(o.fmt)
    THEN [dec EXCEPT !.err = "unsupported pixel format"]
    ELSE
    LET frame == [side |-> from, seq |-> n1[from], w |-> o.w, h |-> o.h]
        pushed == IF side = "L"
                  THEN [l |-> Append(s.l, frame), r |-> s.r]
                  ELSE [l |-> s.l, r |-> Append(s.r, frame)]
        m == MatchUnmatched([l |-> pushed.l, r |-> pushed.r,
                             cl |-> s.cl, cr |-> s.cr, new |-> s.new])
    IN  [dec EXCEPT !.l = m.l, !.r = m.r, !.cl = m.cl, !.cr = m.cr,
                    !.new = m.new, !.got = TRUE]

-----------------------------------------------------------------------------
(* N3DSVideo::processStep *)

StepStartFlagKept(old) == old

\* m_newStereoImage = false;
StepStartFlag(old) == FALSE

FlushReturnAlwaysTrue(got) == "true"

FlushReturnNegated(got) == IF got THEN "false" ELSE "true"

\* m_flushingPacket = decodePacket(); return m_flushingPacket;
FlushReturn(got) == IF got THEN "true" ELSE "false"

\* What av_read_frame can answer: a packet of some stream, or the end of file.
ReadOutcomes ==
    IF m_flushingPacket THEN {[kind |-> "skip", stream |-> 0]}
    ELSE IF packetsRead >= fileLen THEN {[kind |-> "eof", stream |-> 0]}
    ELSE {[kind |-> "packet", stream |-> i] : i \in StreamIds}

ProcessStep ==
    /\ pc = "open"
    /\ \E rd \in ReadOutcomes :
         LET flush  == rd.kind \in {"skip", "eof"}
             stream == IF rd.kind = "skip" THEN pktStream
                       ELSE IF rd.kind = "eof"
                            THEN (IF eofResets THEN 0 ELSE pktStream)
                       ELSE rd.stream
             tracked == stream = m_leftStreamIdx \/ stream = m_rightStreamIdx
             outs == IF tracked THEN DecodeOutcomes(decBuf[stream], flush)
                     ELSE {[kind |-> "none", w |-> 0, h |-> 0, fmt |-> "YUV420P"]}
         IN
         \E o \in outs :
           \E d \in {DecodePacket(
                      [l |-> m_leftUnmatched, r |-> m_rightUnmatched,
                       cl |-> m_curLeft, cr |-> m_curRight,
                       new |-> StepStartFlag(m_newStereoImage),
                       buf |-> decBuf, ctx |-> m_fmtCtx, n |-> nDecoded,
                       stream |-> stream, left |-> m_leftStreamIdx,
                       right |-> m_rightStreamIdx,
                       w |-> m_width, h |-> m_height],
                      flush, o)} :
           /\ pktStream' = stream
           /\ packetsRead' = IF flush THEN packetsRead ELSE packetsRead + 1
           /\ m_leftUnmatched' = d.l
           /\ m_rightUnmatched' = d.r
           /\ m_curLeft' = d.cl
           /\ m_curRight' = d.cr
           /\ m_newStereoImage' = d.new
           /\ decBuf' = d.buf
           /\ m_fmtCtx' = d.ctx
           /\ nDecoded' = d.n
           /\ emitted' = IF d.new THEN emitted + 1 ELSE emitted
           /\ IF d.err # "none"
              THEN /\ pc' = "failed"
                   /\ err' = d.err
                   /\ ret' = "threw"
                   /\ UNCHANGED m_flushingPacket
              ELSE /\ UNCHANGED <<pc, err>>
                   /\ m_flushingPacket' = IF flush THEN d.got ELSE m_flushingPacket
                   /\ ret' = IF flush THEN FlushReturn(d.got) ELSE "true"
    /\ UNCHANGED <<m_leftStreamIdx, m_rightStreamIdx, m_width, m_height,
                   fileLen, eofResets>>
    /\ UNCHANGED <<depthVars, yuvVars>>

-----------------------------------------------------------------------------
(* The synchronizer's specification *)

DepthIdle ==
    /\ phase = "idle"
    /\ disparity0 = <<>>
    /\ disparity = <<>>
    /\ dispUnknown = 0
    /\ cEdgeRow = <<>>
    /\ dEdgeRow = <<>>
    /\ onEdge = FALSE
    /\ col = 0

YuvIdle ==
    /\ cvState = "idle"
    /\ cvKind = "Y"
    /\ cvW = 0
    /\ cvH = 0
    /\ linesize = <<0, 0, 0>>
    /\ cvRow = 0
    /\ ySrc = 0
    /\ uSrc = 0
    /\ vSrc = 0
    /\ res = <<>>

SyncInitWith(ctx, len) ==
    /\ DepthIdle
    /\ YuvIdle
    /\ pc = "new"
    /\ err = "none"
    /\ m_fmtCtx = ctx
    /\ m_leftStreamIdx = -1
    /\ m_rightStreamIdx = -1
    /\ m_width = 0
    /\ m_height = 0
    /\ m_leftUnmatched = <<>>
    /\ m_rightUnmatched = <<>>
    /\ m_curLeft = NoFrame
    /\ m_curRight = NoFrame
    /\ m_newStereoImage = FALSE
    /\ m_flushingPacket = FALSE
    /\ pktStream = 0
    /\ packetsRead = 0
    /\ fileLen = len
    /\ eofResets \in BOOLEAN
    /\ decBuf = [s \in StreamIds |-> 0]
    /\ nDecoded = [side \in {"L", "R"} |-> 0]
    /\ emitted = 0
    /\ ret = "none"

\* Files whose video streams all open and have one size.
PlainContainers ==
    {c \in Containers :
        \A i \in StreamIds :
            c[i].kind = "video" => c[i].decodable /\ c[i].w = 2 /\ c[i].h = 2}

Init == \E ctx \in PlainContainers, len \in 0 .. MaxPackets : SyncInitWith(ctx, len)

Next == Construct \/ ProcessStep

Spec == Init /\ [][Next]_vars

\* The driver calls processStep again and again (main.cc:286).
InitFair ==
    \E ctx \in PlainContainers, len \in 0 .. MaxFairPackets : SyncInitWith(ctx, len)

FairSpec == InitFair /\ [][Next]_vars /\ WF_vars(Next)

\* Opening any file, then a short session on it.
InitOpen ==
    \E ctx \in Containers, len \in 0 .. MaxOpenPackets : SyncInitWith(ctx, len)

SpecOpen == InitOpen /\ [][Next]_vars

-----------------------------------------------------------------------------
(* computeDepth: the conversion of the disparity field to millimetres *)

\* No session: the state of the synchronizer's variables in the specifications
\* of computeDepth and of the plane converters.
SyncIdle ==
    /\ pc = "idle"
    /\ err = "none"
    /\ m_fmtCtx = <<>>
    /\ m_leftStreamIdx = -1
    /\ m_rightStreamIdx = -1
    /\ m_width = 0
    /\ m_height = 0
    /\ m_leftUnmatched = <<>>
    /\ m_rightUnmatched = <<>>
    /\ m_curLeft = NoFrame
    /\ m_curRight = NoFrame
    /\ m_newStereoImage = FALSE
    /\ m_flushingPacket = FALSE
    /\ pktStream = 0
    /\ packetsRead = 0
    /\ fileLen = 0
    /\ eofResets = FALSE
    /\ decBuf = <<>>
    /\ nDecoded = <<>>
    /\ emitted = 0
    /\ ret = "none"

\* Pixels of a row of the depth specification.
DepthRowLen == 2

\* The largest ushort: the disparity field is CV_16UC1.
USHRT_MAX == 65535

\* N3DSXL_CAM_DIST = 0.035 m and N3DSXL_CONVERGENCE = 0.25 m, in millimetres.
N3DSXL_CAM_DIST_MM == 35
N3DSXL_FOCAL_LEN == 565
N3DSXL_CONVERGENCE_MM == 250

\* (double)row[j] / 16.0
DISP_FRACTION == 16

\* abs(double): main.cc builds only where _stricmp exists (main.cc:211), and
\* there the unqualified abs of a double is the floating-point overload.
Abs(x) == IF x < 0 THEN -x ELSE x

MinOf(q) == CHOOSE v \in Range(q) : \A u \in Range(q) : v <= u

\* depth = 1000 * |B / (B/C - disp/F)| with disp = v/16 is, in exact arithmetic,
\* DepthNum / |DepthDen(v)| millimetres (B and C in millimetres).
DepthNum ==
    N3DSXL_CAM_DIST_MM * N3DSXL_CONVERGENCE_MM * DISP_FRACTION * N3DSXL_FOCAL_LEN

DepthDenUnscaled(v) ==
    N3DSXL_CAM_DIST_MM * N3DSXL_FOCAL_LEN - v * N3DSXL_CONVERGENCE_MM

DepthDen(v) ==
    N3DSXL_CAM_DIST_MM * DISP_FRACTION * N3DSXL_FOCAL_LEN - v * N3DSXL_CONVERGENCE_MM

DepthToUshortWrapped(q) == q % (USHRT_MAX + 1)

\* if (depth < 65535) row[j] = (ushort)depth; else row[j] = 0;
DepthToUshort(q) == IF q < USHRT_MAX THEN q ELSE 0

\* The values the else branch can store for the raw disparity v.  The quotient
\* is computed in doubles: where the exact quotient is a whole number n the
\* rounded one may fall just below it and truncate to n - 1.  A zero denominator
\* gives an infinite depth, which fails depth < 65535.
DepthOf(v) ==
    LET aden == Abs(DepthDen(v))
    IN  IF aden = 0 THEN {0}
        ELSE LET q == DepthNum \div aden
             IN  IF DepthNum % aden = 0 /\ q >= 1 /\ q < USHRT_MAX
                 THEN {DepthToUshort(q - 1), DepthToUshort(q)}
                 ELSE {DepthToUshort(q)}

\* One iteration of the conversion loop (main.cc:181-196).
ConvertPixel ==
    /\ phase = "depth"
    /\ col < Len(disparity)
    /\ \E out \in (IF disparity[col + 1] = dispUnknown THEN {0}
                    ELSE DepthOf(disparity[col + 1])) :
         disparity' = [disparity EXCEPT ![col + 1] = out]
    /\ col' = col + 1
    /\ UNCHANGED <<phase, disparity0, dispUnknown, cEdgeRow, dEdgeRow, onEdge>>
    /\ UNCHANGED <<syncVars, yuvVars>>

\* The sentinels the rest of the field holds: 0, and StereoSGBM's
\* (MIN_DISPARITY - 1) * 16.
RestValues == {0, 704}

InitDepth ==
    /\ SyncIdle
    /\ YuvIdle
    /\ phase = "depth"
    /\ \E p \in 0 .. USHRT_MAX, rest \in [1 .. (DepthRowLen - 1) -> RestValues] :
         /\ disparity0 = <<p>> \o rest
         /\ disparity = disparity0
         /\ dispUnknown = MinOf(<<p>> \o rest)
    /\ cEdgeRow = <<>>
    /\ dEdgeRow = <<>>
    /\ onEdge = FALSE
    /\ col = 0

SpecDepth == InitDepth /\ [][ConvertPixel]_vars

-----------------------------------------------------------------------------
(* computeDepth: the deflation scan of one row (main.cc:149-170) *)

\* Columns of a row of the deflation specification.
MaxCols == 5

\* cv::Canny writes 0 or 255.
EdgeValues == {0, 255}

RECURSIVE FillLeftThroughColour(_, _, _, _, _)
FillLeftThroughColour(dst, k, dEdge, cEdge, unknown) ==
    IF k >= 0 /\ dEdge[k + 1] = 0
    THEN FillLeftThroughColour([dst EXCEPT ![k + 1] = unknown], k - 1, dEdge,
                               cEdge, unknown)
    ELSE dst

\* for (k = j - 1; k >= 0 && dEdgeRow[k] == 0 && cEdgeRow[k] == 0; --k)
\*     dst[k] = dispUnknown;            (columns count from 0, sequences from 1)
RECURSIVE FillLeft(_, _, _, _, _)
FillLeft(dst, k, dEdge, cEdge, unknown) ==
    IF k >= 0 /\ dEdge[k + 1] = 0 /\ cEdge[k + 1] = 0
    THEN FillLeft([dst EXCEPT ![k + 1] = unknown], k - 1, dEdge, cEdge, unknown)
    ELSE dst

\* for (k = j; k < cols && dEdgeRow[k] == 0 && cEdgeRow[k] == 0; ++k)
\*     dst[k] = dispUnknown;
RECURSIVE FillRight(_, _, _, _, _)
FillRight(dst, k, dEdge, cEdge, unknown) ==
    IF k < Len(dst) /\ dEdge[k + 1] = 0 /\ cEdge[k + 1] = 0
    THEN FillRight([dst EXCEPT ![k + 1] = unknown], k + 1, dEdge, cEdge, unknown)
    ELSE dst

\* One iteration of the column loop (main.cc:156-169).
DeflateColumn ==
    /\ phase = "deflate"
    /\ col < Len(cEdgeRow)
    /\ IF ~onEdge /\ dEdgeRow[col + 1] > 0
       THEN /\ disparity' =
                 FillLeft(IF cEdgeRow[col + 1] = 0
                          THEN [disparity EXCEPT ![col + 1] = dispUnknown]
                          ELSE disparity,
                          col - 1, dEdgeRow, cEdgeRow, dispUnknown)
            /\ onEdge' = TRUE
       ELSE IF onEdge /\ dEdgeRow[col + 1] = 0
       THEN /\ disparity' = FillRight(disparity, col, dEdgeRow, cEdgeRow, dispUnknown)
            /\ onEdge' = FALSE
       ELSE UNCHANGED <<disparity, onEdge>>
    /\ col' = col + 1
    /\ UNCHANGED <<phase, disparity0, dispUnknown, cEdgeRow, dEdgeRow>>
    /\ UNCHANGED <<syncVars, yuvVars>>

\* A row of distinct disparities above the field's minimum, with any two masks.
InitDeflate ==
    /\ SyncIdle
    /\ YuvIdle
    /\ phase = "deflate"
    /\ dispUnknown \in RestValues
    /\ \E n \in 1 .. MaxCols :
         /\ cEdgeRow \in [1 .. n -> EdgeValues]
         /\ dEdgeRow \in [1 .. n -> EdgeValues]
         /\ disparity0 = [k \in 1 .. n |-> dispUnknown + k]
    /\ disparity = disparity0
    /\ onEdge = FALSE
    /\ col = 0

SpecDeflate == InitDeflate /\ [][DeflateColumn]_vars

-----------------------------------------------------------------------------
(* convertYUV420ToY and convertYUV420ToRGB (utils.cc) *)

MaxWidth == 17
MaxHeight == 3

\* Bytes a row of a plane holds after its samples.
Paddings == {0, 3}

\* What the memory res.create() hands out may hold.
Garbage == {0, 255}

\* The samples of the decoded frame: data[0][o], data[1][o], data[2][o].
YPlane(o) == 1 + o
UPlane(o) == 100 + o
VPlane(o) == 180 + o

\* const int w8 = w & ~7;
W8(w) == w - (w % 8)

\* A pixel of the output: its luma and, for CV_8UC3, its Cr and Cb channels;
\* bgr once cv::cvtColor(res, res, COLOR_YCrCb2BGR) has been applied to it.
Pixel(y, cr, cb) == [y |-> y, cr |-> cr, cb |-> cb, bgr |-> FALSE]

\* Row i of convertYUV420ToY: w8 / 8 rounds of eight copies.
RowY(old, w, y0) ==
    [j \in 1 .. w |-> IF j <= W8(w) THEN Pixel(YPlane(y0 + j - 1), -1, -1)
                       ELSE old[j]]

\* Row i of convertYUV420ToRGB: w8 / 8 rounds of four LOOPs, each writing two
\* pixels with one chroma pair (Y, V, U per pixel).
RowRGB(old, w, y0, u0, v0) ==
    [j \in 1 .. w |->
        IF j <= W8(w)
        THEN Pixel(YPlane(y0 + j - 1), VPlane(v0 + (j - 1) \div 2),
                   UPlane(u0 + (j - 1) \div 2))
        ELSE old[j]]

ConvertRowY ==
    /\ cvState = "rows"
    /\ cvKind = "Y"
    /\ cvRow < cvH
    /\ res' = [res EXCEPT ![cvRow + 1] = RowY(@, cvW, ySrc)]
    /\ ySrc' = ySrc + W8(cvW) + (linesize[1] - W8(cvW))
    /\ cvRow' = cvRow + 1
    /\ cvState' = IF cvRow + 1 < cvH THEN "rows" ELSE "done"
    /\ UNCHANGED <<cvKind, cvW, cvH, linesize, uSrc, vSrc>>
    /\ UNCHANGED <<syncVars, depthVars>>

ConvertRowRGB ==
    /\ cvState = "rows"
    /\ cvKind = "RGB"
    /\ cvRow < cvH
    /\ res' = [res EXCEPT ![cvRow + 1] = RowRGB(@, cvW, ySrc, uSrc, vSrc)]
    /\ ySrc' = ySrc + W8(cvW) + (linesize[1] - W8(cvW))
    /\ IF cvRow % 2 = 1
       THEN /\ uSrc' = uSrc + W8(cvW) \div 2 + (linesize[2] - W8(cvW) \div 2)
            /\ vSrc' = vSrc + W8(cvW) \div 2 + (linesize[3] - W8(cvW) \div 2)
       ELSE /\ uSrc' = uSrc + W8(cvW) \div 2 - W8(cvW) \div 2
            /\ vSrc' = vSrc + W8(cvW) \div 2 - W8(cvW) \div 2
    /\ cvRow' = cvRow + 1
    /\ cvState' = IF cvRow + 1 < cvH THEN "rows" ELSE "colour"
    /\ UNCHANGED <<cvKind, cvW, cvH, linesize>>
    /\ UNCHANGED <<syncVars, depthVars>>

\* cv::cvtColor(res, res, cv::COLOR_YCrCb2BGR): pixel by pixel.
CvtColor ==
    /\ cvState = "colour"
    /\ res' = [i \in 1 .. cvH |-> [j \in 1 .. cvW |-> [res[i][j] EXCEPT !.bgr = TRUE]]]
    /\ cvState' = "done"
    /\ UNCHANGED <<cvKind, cvW, cvH, linesize, cvRow, ySrc, uSrc, vSrc>>
    /\ UNCHANGED <<syncVars, depthVars>>

\* The state after res.create(cv::Size(w, h), ...): the matrix holds whatever
\* its memory held.
InitYuv ==
    /\ SyncIdle
    /\ DepthIdle
    /\ cvState = "rows"
    /\ cvKind \in {"Y", "RGB"}
    /\ cvW \in 1 .. MaxWidth
    /\ cvH \in 1 .. MaxHeight
    /\ \E pad \in Paddings :
         linesize = <<cvW + pad, (cvW + 1) \div 2 + pad, (cvW + 1) \div 2 + pad>>
    /\ cvRow = 0
    /\ ySrc = 0
    /\ uSrc = 0
    /\ vSrc = 0
    /\ \E g \in Garbage :
         res = [i \in 1 .. cvH |-> [j \in 1 .. cvW |->
                  IF cvKind = "Y" THEN Pixel(g, -1, -1) ELSE Pixel(g, g, g)]]

NextYuv == ConvertRowY \/ ConvertRowRGB \/ CvtColor

SpecYuv == InitYuv /\ [][NextYuv]_vars

-----------------------------------------------------------------------------
(* Claims about the synchronizer *)

\* C1: after every processStep call of an open session, the number of calls that
\* ended with a new stereo pair equals the smaller of the numbers of frames the
\* left and the right decoder have output so far.
C1_PairCount == pc = "open" => emitted = Min(nDecoded["L"], nDecoded["R"])

C1_Witness ==
    /\ pc = "open"
    /\ emitted = 1
    /\ nDecoded["L"] = 3
    /\ nDecoded["R"] = 1

\* C2: the i-th pair exposed through leftImage()/rightImage() is the i-th frame
\* decoded from the left stream with the i-th frame decoded from the right one.
C2_FifoPairing ==
    m_newStereoImage =>
        /\ m_curLeft.side = "L" /\ m_curLeft.seq = emitted
        /\ m_curRight.side = "R" /\ m_curRight.seq = emitted

\* The second pair, formed while flushing, with the sides out of step before it.
C2_Witness ==
    /\ m_newStereoImage
    /\ emitted = 2
    /\ m_flushingPacket
    /\ m_curLeft.seq = 2
    /\ m_curRight.seq = 2

\* C3: with the driver calling on, processStep eventually returns false (or the
\* session is aborted by an exception), and from the first false on every call
\* returns false and reports no new pair.
C3_DoneTerminal ==
    /\ <>(ret = "false" \/ pc = "failed")
    /\ [][ret = "false" => (ret' = "false" /\ ~m_newStereoImage')]_vars

C3_Witness ==
    /\ ret = "false"
    /\ packetsRead = fileLen
    /\ emitted >= 1
    /\ ~m_newStereoImage

\* C4: a processStep call leaves the flag true exactly when it popped a pair into
\* the current-pair slot (whatever the flag was before), and a call that leaves
\* it false leaves leftImage() and rightImage() as they were.
C4_FlagFrame ==
    [][(pc = "open" /\ pc' = "open") =>
        /\ m_newStereoImage' =
             (Len(m_leftUnmatched') + Len(m_rightUnmatched')
                < Len(m_leftUnmatched) + Len(m_rightUnmatched))
        /\ m_newStereoImage' =>
             /\ m_curLeft' = IF m_leftUnmatched # <<>> THEN Head(m_leftUnmatched)
                             ELSE [m_curRight' EXCEPT !.side = "L",
                                                      !.seq = nDecoded'["L"]]
             /\ m_curRight' = IF m_rightUnmatched # <<>> THEN Head(m_rightUnmatched)
                              ELSE [m_curLeft' EXCEPT !.side = "R",
                                                      !.seq = nDecoded'["R"]]
             /\ m_curLeft' \notin Range(m_leftUnmatched')
             /\ m_curRight' \notin Range(m_rightUnmatched')
        /\ ~m_newStereoImage' => UNCHANGED <<m_curLeft, m_curRight>>
    ]_vars

\* A call has cleared the flag a previous call set, and kept the pair.
C4_Witness ==
    /\ pc = "open"
    /\ ~m_newStereoImage
    /\ emitted = 1
    /\ m_curLeft.seq = 1
    /\ nDecoded["L"] = 2
    /\ ret = "true"

\* C5: when processStep returns false, neither tracked stream's decoder still
\* holds a frame.
C5_DecodersDrained ==
    ret = "false" => decBuf[m_leftStreamIdx] = 0 /\ decBuf[m_rightStreamIdx] = 0

\* C11: after every processStep call at least one of the two unmatched FIFOs
\* is empty, and a call forms at most one pair: the slot moves on by at most one
\* frame per side, to the next frame of each stream, and whenever it moves the
\* flag is set for the caller that polls it after the call.
C11_OneFifoEmpty ==
    [][/\ (Len(m_leftUnmatched') = 0 \/ Len(m_rightUnmatched') = 0)
       /\ m_curLeft'.seq \in {m_curLeft.seq, m_curLeft.seq + 1}
       /\ m_curRight'.seq \in {m_curRight.seq, m_curRight.seq + 1}
       /\ (m_curLeft' # m_curLeft \/ m_curRight' # m_curRight) =>
             /\ m_newStereoImage'
             /\ m_curLeft'.seq = m_curLeft.seq + 1
             /\ m_curRight'.seq = m_curRight.seq + 1]_vars

\* Two left frames were waiting when the first right frame arrived: the call
\* paired the first of them and the second still waits.
C11_Witness ==
    /\ pc = "open"
    /\ m_newStereoImage
    /\ m_curLeft.seq = 1
    /\ m_curRight.seq = 1
    /\ Len(m_leftUnmatched) = 1
    /\ Len(m_rightUnmatched) = 0
    /\ nDecoded["L"] = 2

\* C12: a processStep call that does not return true (it returns false, or it
\* throws) forms no pair: after it hasNewStereoImage() is false, the slot holds
\* what it held before and no pair was counted; so the flag is only ever set
\* after a call that returned true, the one case in which the driver loop of
\* main.cc:286-287 goes on to poll it.
C12_FalseReturnsNoPair ==
    [][/\ ret' # "true" =>
             /\ ~m_newStereoImage'
             /\ m_curLeft' = m_curLeft
             /\ m_curRight' = m_curRight
             /\ emitted' = emitted
       /\ m_newStereoImage' => ret' = "true"]_vars

\* The end of a session that produced pairs: the call returned false, the flag
\* is clear and the slot still holds the last pair, which the driver polled
\* after the earlier call that formed it.
C12_Witness ==
    /\ pc = "open"
    /\ ret = "false"
    /\ ~m_newStereoImage
    /\ emitted = 2
    /\ m_curLeft.seq = 2
    /\ m_curRight.seq = 2
    /\ packetsRead = fileLen

-----------------------------------------------------------------------------
(* Claims about the resolution checks *)

FramesHeld ==
    (Range(m_leftUnmatched) \cup Range(m_rightUnmatched)
        \cup {m_curLeft, m_curRight}) \ {NoFrame}

VideoStreams(ctx) == {i \in StreamIds : ctx[i].kind = "video"}

FirstVideo(ctx) == CHOOSE i \in VideoStreams(ctx) : \A j \in VideoStreams(ctx) : i <= j

SameSize(ctx, i, j) == ctx[i].w = ctx[j].w /\ ctx[i].h = ctx[j].h

\* Some video stream after the first one has the first one's size.
HasMatchingStream(ctx) ==
    /\ VideoStreams(ctx) # {}
    /\ \E j \in VideoStreams(ctx) : j > FirstVideo(ctx) /\ SameSize(ctx, FirstVideo(ctx), j)

\* The second video stream of the file differs in size from the first.
SecondVideoDiffers(ctx) ==
    /\ Cardinality(VideoStreams(ctx)) >= 2
    /\ LET rest == VideoStreams(ctx) \ {FirstVideo(ctx)}
           second == CHOOSE i \in rest : \A j \in rest : i <= j
       IN  ~SameSize(ctx, FirstVideo(ctx), second)

\* C6 (as stated): a second video stream whose size differs from the first's
\* makes construction fail.
C6_SecondStreamMismatchFatal ==
    (pc # "new" /\ ret = "none" /\ SecondVideoDiffers(m_fmtCtx)) => pc = "failed"

\* C6 (amended): at open time a video stream whose size differs from the first
\* video stream's is skipped; construction fails when no later video stream has
\* the first one's size, and succeeds only with two streams of the session's
\* width and height.  While decoding, no frame whose stream size differs from the
\* session's reaches a FIFO or the current pair: the session is aborted instead.
C6_SameResolution ==
    /\ (pc # "new" /\ ret = "none" /\ ~HasMatchingStream(m_fmtCtx)) =>
            /\ pc = "failed"
            /\ err \in {"cannot find matching L/R video streams",
                         "cannot decode stream"}
    /\ (pc = "failed" /\ ret = "none" /\ HasMatchingStream(m_fmtCtx)) =>
            err = "cannot decode stream"
    /\ pc = "open" =>
            /\ m_leftStreamIdx = FirstVideo(m_fmtCtx)
            /\ m_rightStreamIdx > m_leftStreamIdx
            /\ m_fmtCtx[m_rightStreamIdx].kind = "video"
            /\ \A i \in {m_leftStreamIdx, m_rightStreamIdx} :
                  m_fmtCtx[i].w = m_width /\ m_fmtCtx[i].h = m_height
            /\ \A f \in FramesHeld : f.w = m_width /\ f.h = m_height
    /\ (pc = "failed" /\ err = "frame size changed") =>
            \E i \in {m_leftStreamIdx, m_rightStreamIdx} :
                m_fmtCtx[i].w # m_width \/ m_fmtCtx[i].h # m_height

\* A file whose second video stream was skipped for its size, and a pair formed.
C6_Witness ==
    /\ pc = "open"
    /\ SecondVideoDiffers(m_fmtCtx)
    /\ m_newStereoImage

-----------------------------------------------------------------------------
(* Claims about the depth conversion *)

Converted == 1 .. col

\* |12656 - 10 d|: the claim's denominator for the raw disparity d.
ClaimDen(d) == Abs(12656 - 10 * d)

\* C7: a pixel equal to the sentinel becomes 0; a pixel whose denominator
\* vanishes or whose depth is 65535 mm or more becomes 0; no pixel becomes the
\* depth wrapped modulo 2^16 or clamped to 65535.
C7_UnknownAndOverflow ==
    phase = "depth" =>
    \A k \in Converted :
        LET d == disparity0[k]
            out == disparity[k]
        IN  /\ d = dispUnknown => out = 0
            /\ (d # dispUnknown /\ ClaimDen(d) = 0) => out = 0
            /\ (d # dispUnknown /\ ClaimDen(d) # 0
                    /\ 3164000 \div ClaimDen(d) >= 65535) => out = 0
            /\ out # 0 => /\ d # dispUnknown
                          /\ ClaimDen(d) # 0
                          /\ out <= 3164000 \div ClaimDen(d)
                          /\ 3164000 \div ClaimDen(d) < 65535

\* A pixel that is not the sentinel, 527 m deep, stored as 0.
C7_Witness ==
    /\ phase = "depth"
    /\ col >= 1
    /\ disparity0[1] = 1265
    /\ dispUnknown = 704
    /\ disparity[1] = 0

\* C8 (as stated): the stored depth is 3164000 / |12656 - 10 d| rounded to the
\* nearest millimetre.
C8_RoundedToNearest ==
    phase = "depth" =>
    \A k \in Converted :
        LET d == disparity0[k]
            m == ClaimDen(d)
        IN  IF d = dispUnknown THEN disparity[k] = 0
            ELSE (m # 0 /\ 3164000 \div m < 65535) =>
                    disparity[k] = (2 * 3164000 + m) \div (2 * m)

\* C8 (amended): the stored depth is 3164000 / |12656 - 10 d| truncated to whole
\* millimetres: it is at most the exact depth and less than one millimetre
\* below it, or exactly one below where the exact depth is a whole number.
C8_TruncatedDepth ==
    phase = "depth" =>
    \A k \in Converted :
        LET d == disparity0[k]
            m == ClaimDen(d)
            out == disparity[k]
        IN  IF d = dispUnknown THEN out = 0
            ELSE (m # 0 /\ 3164000 \div m < 65535) =>
                    /\ out * m <= 3164000
                    /\ 3164000 <= (out + 1) * m

\* Raw disparity 720 (45 pixels): 579.91 mm, stored as 579.
C8_Witness ==
    /\ phase = "depth"
    /\ col >= 1
    /\ disparity0[1] = 720
    /\ dispUnknown = 704
    /\ disparity[1] = 579

-----------------------------------------------------------------------------
(* Claims about the deflation scan *)

IsDEdge(k) == dEdgeRow[k] > 0
IsCEdge(k) == cEdgeRow[k] > 0
IsNeither(k) == ~IsDEdge(k) /\ ~IsCEdge(k)

\* (a) the leftmost pixel of a maximal run of disparity-edge pixels, when it is
\* not a colour-edge pixel.
RunStartTarget(k) ==
    /\ IsDEdge(k)
    /\ ~IsCEdge(k)
    /\ (k = 1 \/ ~IsDEdge(k - 1))

\* (b) a pixel of a maximal run a .. b of neither-edge pixels that has a
\* disparity-edge pixel right before it or right after it.
NeitherRunTarget(k) ==
    /\ IsNeither(k)
    /\ \E a \in 1 .. k, b \in k .. Len(dEdgeRow) :
         /\ \A i \in a .. b : IsNeither(i)
         /\ (a = 1 \/ ~IsNeither(a - 1))
         /\ (b = Len(dEdgeRow) \/ ~IsNeither(b + 1))
         /\ \/ (a > 1 /\ IsDEdge(a - 1))
            \/ (b < Len(dEdgeRow) /\ IsDEdge(b + 1))

\* C10: the scan writes only the sentinel; when it has passed the row, exactly
\* the pixels (a) and (b) hold the sentinel and every other pixel, so every
\* colour-edge pixel, keeps its value; a row with no disparity edge is unchanged.
C10_DeflationTargets ==
    phase = "deflate" =>
        /\ \A k \in 1 .. Len(disparity) :
              disparity[k] \in {disparity0[k], dispUnknown}
        /\ \A k \in 1 .. Len(disparity) :
              IsCEdge(k) => disparity[k] = disparity0[k]
        /\ col = Len(disparity) =>
              /\ \A k \in 1 .. Len(disparity) :
                    disparity[k] = IF RunStartTarget(k) \/ NeitherRunTarget(k)
                                   THEN dispUnknown
                                   ELSE disparity0[k]
              /\ (\A k \in 1 .. Len(disparity) : ~IsDEdge(k)) =>
                    disparity = disparity0

\* An unsupported disparity edge in column 3: it and its neighbours are filled,
\* up to the colour edges in columns 1 and 5.
C10_Witness ==
    /\ phase = "deflate"
    /\ col = 5
    /\ dEdgeRow = <<0, 0, 255, 0, 0>>
    /\ cEdgeRow = <<255, 0, 0, 0, 255>>
    /\ disparity = <<dispUnknown + 1, dispUnknown, dispUnknown, dispUnknown,
                     dispUnknown + 5>>

-----------------------------------------------------------------------------
(* Claims about the plane converters *)

\* C9: when a converter has returned, every pixel (i, j) of the output holds
\* source luma sample (i, j) and, in the colour output, the chroma pair at
\* (i div 2, j div 2) of the half-resolution planes, whatever the width.
C9_EveryPixelWritten ==
    cvState = "done" =>
        \A i \in 0 .. (cvH - 1), j \in 0 .. (cvW - 1) :
            /\ res[i + 1][j + 1].y = YPlane(i * linesize[1] + j)
            /\ cvKind = "RGB" =>
                 /\ res[i + 1][j + 1].cb = UPlane((i \div 2) * linesize[2] + j \div 2)
                 /\ res[i + 1][j + 1].cr = VPlane((i \div 2) * linesize[3] + j \div 2)

=============================================================================
